---- MODULE Spec2Model ----
(***************************************************************************)
(* Budget_Planner: the four model objects that app.py constructs at module *)
(* level (ExpensePredictor, IncomePredictor, SavingsPredictor,             *)
(* BudgetOptimizer) and the calls made on them.                            *)
(*                                                                         *)
(* Numbers.  Python floats are modelled as exact rationals <<n, d>> in     *)
(* lowest terms with d > 0.  A list of dicts is a sequence of records; a   *)
(* key a dict lacks is a field the record lacks, and the columns of the    *)
(* pandas DataFrame built from the list are the union of the keys.  An     *)
(* optional argument is <<>> (None) or <<v>>.                              *)
(***************************************************************************)
EXTENDS Integers, Sequences, FiniteSets, TLC

VARIABLES
    savings_rate,         \* SavingsPredictor.savings_rate
    ideal_allocations,    \* BudgetOptimizer.ideal_allocations
    minimum_allocations,  \* BudgetOptimizer.minimum_allocations
    expense_predictor,    \* ExpensePredictor: is_trained, encoder, model
    income_predictor,     \* IncomePredictor: is_trained, encoder, model
    call                  \* the last completed call: its arguments and outcome

vars == <<savings_rate, ideal_allocations, minimum_allocations,
          expense_predictor, income_predictor, call>>

(***************************************************************************)
(* Bounds of the model.                                                    *)
(***************************************************************************)
MaxOptExpenses == 2     \* expense records in a call of optimize
MaxOptIncome == 2       \* income records in a call of optimize
MaxSavings == 2         \* savings records in a call of SavingsPredictor.predict
MaxSavIncome == 2       \* income records in a call on the SavingsPredictor
MaxSavExpenses == 2     \* expense records in a call on the SavingsPredictor
MaxPredExpenses == 3    \* expense records in a call on the ExpensePredictor
MaxPredIncome == 2      \* income records in a call on the IncomePredictor

(***************************************************************************)
(* Exact rational arithmetic.                                              *)
(***************************************************************************)
Abs(x) == IF x < 0 THEN -x ELSE x

RECURSIVE Gcd(_, _)
Gcd(a, b) == IF b = 0 THEN a ELSE Gcd(b, a % b)

Rat(n, d) ==
    LET s == IF d < 0 THEN -1 ELSE 1
        g == Gcd(Abs(n), Abs(d))
    IN  <<(s * n) \div g, (s * d) \div g>>

R(n) == <<n, 1>>
\* products and sums are reduced before they are formed, to keep them small
RMul(a, b) ==
    LET g1 == Gcd(Abs(a[1]), b[2])
        g2 == Gcd(Abs(b[1]), a[2])
    IN  Rat((a[1] \div g1) * (b[1] \div g2), (a[2] \div g2) * (b[2] \div g1))
RAdd(a, b) ==
    LET g == Gcd(a[2], b[2])
    IN  Rat(a[1] * (b[2] \div g) + b[1] * (a[2] \div g), (a[2] \div g) * b[2])
RNeg(a) == <<-a[1], a[2]>>
RSub(a, b) == RAdd(a, RNeg(b))
RDiv(a, b) == RMul(a, IF b[1] < 0 THEN <<-b[2], -b[1]>> ELSE <<b[2], b[1]>>)
RLt(a, b) == RSub(a, b)[1] < 0
RLe(a, b) == RSub(a, b)[1] <= 0
RPos(a) == a[1] > 0
\* Python's max(a, b): the first argument unless the second is greater.
RMax(a, b) == IF RLt(a, b) THEN b ELSE a

\* round-half-even of n/d (d > 0) to an integer
RoundHalfEven(n, d) ==
    LET q == n \div d
        r == n % d
    IN  IF 2 * r < d THEN q
        ELSE IF 2 * r > d THEN q + 1
        ELSE IF q % 2 = 0 THEN q ELSE q + 1

\* Python's round(x, 2)
Round2(a) ==
    LET whole == a[1] \div a[2]
        frac == a[1] % a[2]
    IN  RAdd(R(whole), Rat(RoundHalfEven(100 * frac, a[2]), 100))

(***************************************************************************)
(* Lists of dicts and the DataFrame built from them.                       *)
(***************************************************************************)
None == <<>>
Some(v) == <<v>>

\* pd.DataFrame(records).columns
Columns(records) == UNION {DOMAIN records[i] : i \in DOMAIN records}

\* the sum of f[lo], ..., f[hi], halving the range
RECURSIVE SumRange(_, _, _)
SumRange(f, lo, hi) ==
    IF lo > hi THEN R(0)
    ELSE IF lo = hi THEN f[lo]
    ELSE LET mid == (lo + hi) \div 2
         IN  RAdd(SumRange(f, lo, mid), SumRange(f, mid + 1, hi))

\* Series.sum() of a column over the rows in idx: a missing value (NaN) is skipped
SumOver(records, field, idx) ==
    SumRange([i \in DOMAIN records |->
                 IF i \in idx /\ field \in DOMAIN records[i]
                 THEN records[i][field]
                 ELSE R(0)],
             1, Len(records))

\* df[field].sum()
ColumnSum(records, field) == SumOver(records, field, DOMAIN records)

\* every key of a dict of numbers the model builds
KeyOrder ==
    <<"housing", "utilities", "food", "transportation", "entertainment", "health",
      "education", "other", "misc", "salary", "freelance", "business", "investments",
      "rental", "gifts">>

\* sum(d.values()) of a dict of numbers
SumValues(d, keys) ==
    LET order == SelectSeq(KeyOrder, LAMBDA k : k \in keys)
    IN  SumRange([i \in DOMAIN order |-> d[order[i]]], 1, Len(order))

\* pd.to_datetime on one date string: the dates the model draws from
BadDate == "not-a-date"
DateTable ==
    [d \in {"2024-01-05", "2024-01-19", "2024-03-12", "2025-02-03"} |->
        CASE d = "2024-01-05" -> [year |-> 2024, month |-> 1, dayofweek |-> 4]
          [] d = "2024-01-19" -> [year |-> 2024, month |-> 1, dayofweek |-> 4]
          [] d = "2024-03-12" -> [year |-> 2024, month |-> 3, dayofweek |-> 1]
          [] d = "2025-02-03" -> [year |-> 2025, month |-> 2, dayofweek |-> 0]]
Parseable(d) == d \in DOMAIN DateTable

\* pd.to_datetime(df['date']) raises when a value is unparseable; a missing
\* value becomes NaT
DatesParse(records) ==
    \A i \in DOMAIN records :
        "date" \in DOMAIN records[i] => Parseable(records[i].date)

(***************************************************************************)
(* BudgetOptimizer                                                         *)
(***************************************************************************)
Categories ==
    {"housing", "utilities", "food", "transportation",
     "entertainment", "health", "education", "other"}

InitIdealAllocations ==
    [c \in Categories |->
        CASE c = "housing" -> 30
          [] c = "utilities" -> 10
          [] c = "food" -> 15
          [] c = "transportation" -> 10
          [] c = "entertainment" -> 5
          [] c = "health" -> 10
          [] c = "education" -> 5
          [] c = "other" -> 15]

InitMinimumAllocations ==
    [c \in Categories |->
        CASE c = "housing" -> 20
          [] c = "utilities" -> 5
          [] c = "food" -> 10
          [] c = "transportation" -> 5
          [] c = "health" -> 5
          [] c = "education" -> 2
          [] c = "entertainment" -> 2
          [] c = "other" -> 5]

DefaultIncome == 50000

\* (percentage / 100) * monthly_income
PercentOf(percentage, monthly_income) ==
    RMul(RDiv(percentage, R(100)), monthly_income)

analyze_spending_patterns(expenses) ==
    IF expenses = <<>> THEN <<>>
    ELSE IF "category" \notin Columns(expenses) \/ "amount" \notin Columns(expenses)
    THEN <<>>
    ELSE LET rows(c) == {i \in DOMAIN expenses :
                            /\ "category" \in DOMAIN expenses[i]
                            /\ expenses[i].category = c}
             cats == {expenses[i].category :
                        i \in {j \in DOMAIN expenses : "category" \in DOMAIN expenses[j]}}
             spending_by_category == [c \in cats |-> SumOver(expenses, "amount", rows(c))]
             total_spending == SumValues(spending_by_category, cats)
         IN  [c \in cats |->
                IF RPos(total_spending)
                THEN RMul(RDiv(spending_by_category[c], total_spending), R(100))
                ELSE R(0)]

\* df.groupby('month_year')['amount'].sum().mean(): rows without a date drop out
MonthlyMean(income) ==
    LET dated == {i \in DOMAIN income : "date" \in DOMAIN income[i]}
        key(i) == DateTable[income[i].date].year * 12 + DateTable[income[i].date].month
        months == {key(i) : i \in dated}
        first == CHOOSE m \in months : \A n \in months : m <= n
        last == CHOOSE m \in months : \A n \in months : m >= n
        sums == [m \in first .. last |->
                    SumOver(income, "amount", {i \in dated : key(i) = m})]
    IN  RDiv(SumRange(sums, first, last), R(Cardinality(months)))

calculate_total_income(income) ==
    IF income = <<>> THEN R(0)
    ELSE IF "amount" \notin Columns(income) THEN R(0)
    ELSE IF "date" \in Columns(income) /\ Len(income) > 0
    THEN IF DatesParse(income)
         THEN MonthlyMean(income)
         ELSE RDiv(ColumnSum(income, "amount"), R(IF Len(income) > 1 THEN Len(income) ELSE 1))
    ELSE ColumnSum(income, "amount")

\* mutant: only an income of exactly 0 counts as undetermined
ResolveMonthlyIncome_ZeroOnly(expenses, income) ==
    LET computed == calculate_total_income(income)
        proxy == IF expenses # <<>> /\ "amount" \in Columns(expenses)
                 THEN ColumnSum(expenses, "amount")
                 ELSE computed
    IN  IF computed = R(0)
        THEN IF proxy = R(0) THEN R(DefaultIncome) ELSE proxy
        ELSE computed

\* optimize, lines 109-120: the income the allocation is computed from
ResolveMonthlyIncome(expenses, income) ==
    LET computed == calculate_total_income(income)
        proxy == IF expenses # <<>> /\ "amount" \in Columns(expenses)
                 THEN ColumnSum(expenses, "amount")
                 ELSE computed
    IN  IF RLe(computed, R(0))
        THEN IF RLe(proxy, R(0)) THEN R(DefaultIncome) ELSE proxy
        ELSE computed

\* optimize, lines 122-125
SeedIdeal(monthly_income) ==
    [c \in DOMAIN ideal_allocations |-> PercentOf(R(ideal_allocations[c]), monthly_income)]

\* mutant: the allocation follows the current spending, up or down
AdjustToSpending_Replace(budget, spending_patterns, monthly_income) ==
    [c \in DOMAIN budget |->
        IF c \in DOMAIN spending_patterns
        THEN PercentOf(spending_patterns[c], monthly_income)
        ELSE budget[c]]

\* optimize, lines 127-137
AdjustToSpending(budget, spending_patterns, monthly_income) ==
    [c \in DOMAIN budget |->
        IF c \in DOMAIN spending_patterns
        THEN LET current_spending == PercentOf(spending_patterns[c], monthly_income)
             IN  IF RLt(current_spending, budget[c]) THEN current_spending ELSE budget[c]
        ELSE budget[c]]

\* mutant: the floor comparison reversed
EnforceMinimum_Reversed(budget, monthly_income) ==
    [c \in DOMAIN budget |->
        IF c \in DOMAIN minimum_allocations
        THEN LET min_amount == PercentOf(R(minimum_allocations[c]), monthly_income)
             IN  IF RLt(min_amount, budget[c]) THEN min_amount ELSE budget[c]
        ELSE budget[c]]

\* optimize, lines 139-143
EnforceMinimum(budget, monthly_income) ==
    [c \in DOMAIN budget |->
        IF c \in DOMAIN minimum_allocations
        THEN LET min_amount == PercentOf(R(minimum_allocations[c]), monthly_income)
             IN  IF RLt(budget[c], min_amount) THEN min_amount ELSE budget[c]
        ELSE budget[c]]

\* mutant: the whole step to the newly computed amount is taken at once
GradualAdjust_FullStep(budget, current_budget) == budget

\* optimize, lines 145-150: current_budget is None, or a dict (an empty dict is falsy)
GradualAdjust(budget, current_budget) ==
    IF current_budget = None \/ DOMAIN current_budget[1] = {}
    THEN budget
    ELSE [c \in DOMAIN budget |->
            IF c \in DOMAIN current_budget[1]
            THEN RDiv(RAdd(current_budget[1][c], budget[c]), R(2))
            ELSE budget[c]]

\* optimize, lines 152-154
RoundAll(budget) == [c \in DOMAIN budget |-> Round2(budget[c])]

optimize(expenses, income, current_budget) ==
    LET spending_patterns == analyze_spending_patterns(expenses)
        monthly_income == ResolveMonthlyIncome(expenses, income)
    IN  RoundAll(
            GradualAdjust(
                EnforceMinimum(
                    AdjustToSpending(SeedIdeal(monthly_income), spending_patterns,
                                     monthly_income),
                    monthly_income),
                current_budget))

(***************************************************************************)
(* SavingsPredictor                                                        *)
(***************************************************************************)
InitSavingsRate == Rat(1, 10)
GrowthRate == Rat(102, 100)
ForecastLength == 6

\* df['date'].min() / .max(): the earliest and latest parsed date (NaT skipped)
DateOrd(d) == DateTable[d].year * 12 + DateTable[d].month
DatedRows(records) == {i \in DOMAIN records : "date" \in DOMAIN records[i]}
StartDate(records) ==
    LET i == CHOOSE j \in DatedRows(records) :
                \A k \in DatedRows(records) : DateOrd(records[j].date) <= DateOrd(records[k].date)
    IN  DateTable[records[i].date]
EndDate(records) ==
    LET i == CHOOSE j \in DatedRows(records) :
                \A k \in DatedRows(records) : DateOrd(records[j].date) >= DateOrd(records[k].date)
    IN  DateTable[records[i].date]

\* calculate_monthly_savings, line 50
MonthsBetween(start_date, end_date) ==
    LET diff == (end_date.year - start_date.year) * 12 + end_date.month - start_date.month
    IN  IF diff > 1 THEN diff ELSE 1

\* max(1, len(income_data))
CountOrOne(records) == IF Len(records) > 1 THEN Len(records) ELSE 1

\* calculate_monthly_savings, lines 39-60: the number total_savings is divided by
SavingsDivisor(income_data) ==
    IF "date" \in Columns(income_data) /\ Len(income_data) > 0
    THEN IF DatesParse(income_data)
         THEN MonthsBetween(StartDate(income_data), EndDate(income_data))
         ELSE CountOrOne(income_data)
    ELSE CountOrOne(income_data)

\* mutant: the rate is stored whenever total_income is not 0
calculate_monthly_savings_AnyIncome(income_data, expense_data, rate) ==
    IF income_data = <<>> \/ expense_data = <<>>
    THEN [value |-> R(0), savings_rate |-> rate]
    ELSE IF "amount" \notin Columns(income_data) \/ "amount" \notin Columns(expense_data)
    THEN [value |-> R(0), savings_rate |-> rate]
    ELSE LET total_income == ColumnSum(income_data, "amount")
             total_expenses == ColumnSum(expense_data, "amount")
             total_savings == RSub(total_income, total_expenses)
         IN  [value |-> RDiv(total_savings, R(SavingsDivisor(income_data))),
              savings_rate |-> IF total_income # R(0)
                               THEN RDiv(total_savings, total_income)
                               ELSE rate]

\* calculate_monthly_savings on an instance whose savings_rate is rate: the value
\* returned and the savings_rate the instance is left with
calculate_monthly_savings(income_data, expense_data, rate) ==
    IF income_data = <<>> \/ expense_data = <<>>
    THEN [value |-> R(0), savings_rate |-> rate]
    ELSE IF "amount" \notin Columns(income_data) \/ "amount" \notin Columns(expense_data)
    THEN [value |-> R(0), savings_rate |-> rate]
    ELSE LET total_income == ColumnSum(income_data, "amount")
             total_expenses == ColumnSum(expense_data, "amount")
             total_savings == RSub(total_income, total_expenses)
         IN  [value |-> RDiv(total_savings, R(SavingsDivisor(income_data))),
              savings_rate |-> IF RPos(total_income)
                               THEN RDiv(total_savings, total_income)
                               ELSE rate]

\* df['amount'].mean(): the mean of the values present
ColumnMean(records, field) ==
    RDiv(ColumnSum(records, field),
         R(Cardinality({i \in DOMAIN records : field \in DOMAIN records[i]})))

\* predict, lines 73-81
AvgMonthlySavings(savings_data) ==
    IF savings_data # <<>>
    THEN IF "amount" \in Columns(savings_data)
         THEN ColumnMean(savings_data, "amount")
         ELSE R(0)
    ELSE R(0)

\* an optional list argument is truthy when it is given and not empty
Truthy(opt) == opt # None /\ opt[1] # <<>>

\* mutant: the two signals are always averaged
NextMonthSavings_AlwaysMean(avg_monthly_savings, income_data, expense_data, rate) ==
    IF Truthy(income_data) /\ Truthy(expense_data)
    THEN RDiv(RAdd(avg_monthly_savings,
                   calculate_monthly_savings(income_data[1], expense_data[1], rate).value),
              R(2))
    ELSE avg_monthly_savings

\* predict, lines 83-94
NextMonthSavings(avg_monthly_savings, income_data, expense_data, rate) ==
    IF Truthy(income_data) /\ Truthy(expense_data)
    THEN LET calculated_monthly_savings ==
                 calculate_monthly_savings(income_data[1], expense_data[1], rate).value
         IN  IF RPos(avg_monthly_savings) /\ RPos(calculated_monthly_savings)
             THEN RDiv(RAdd(avg_monthly_savings, calculated_monthly_savings), R(2))
             ELSE RMax(avg_monthly_savings, calculated_monthly_savings)
    ELSE avg_monthly_savings

\* mutant: the value is grown before it is appended, so the starting value
\* itself is never an entry
RECURSIVE Forecast_GrowFirst(_, _, _)
Forecast_GrowFirst(current_savings, growth_rate, n) ==
    IF n <= 1 THEN <<>>
    ELSE LET grown == [base |-> current_savings.base,
                       factor |-> RMul(current_savings.factor, growth_rate)]
         IN  <<grown>> \o Forecast_GrowFirst(grown, growth_rate, n - 1)

\* predict, lines 96-103.  A forecast entry is base * factor, kept as the pair:
\* the factor is a power of the growth rate and the product is never formed.
RECURSIVE Forecast(_, _, _)
Forecast(current_savings, growth_rate, n) ==
    IF n = 0 THEN <<>>
    ELSE <<current_savings>> \o
         Forecast([base |-> current_savings.base,
                   factor |-> RMul(current_savings.factor, growth_rate)],
                  growth_rate, n - 1)

\* predict on an instance whose savings_rate is rate
SavingsPredict(savings_data, income_data, expense_data, rate) ==
    LET next_month_savings ==
            NextMonthSavings(AvgMonthlySavings(savings_data), income_data, expense_data, rate)
        rate_after ==
            IF Truthy(income_data) /\ Truthy(expense_data)
            THEN calculate_monthly_savings(income_data[1], expense_data[1], rate).savings_rate
            ELSE rate
    IN  [result |-> [next_month |-> next_month_savings,
                     six_month_forecast |->
                         Forecast([base |-> next_month_savings, factor |-> R(1)],
                                  GrowthRate, ForecastLength),
                     savings_rate |-> RMul(rate_after, R(100))],
         savings_rate |-> rate_after]

(***************************************************************************)
(* ExpensePredictor and IncomePredictor                                    *)
(*                                                                         *)
(* A predictor is [is_trained, encoder, model, labels]: encoder is the     *)
(* OneHotEncoder's categories_ (sorted; <<>> before any fit), model the    *)
(* LinearRegression's intercept_ and coef_ (coef <<>> before any fit),     *)
(* labels the attribute train saves (self.categories / self.sources).      *)
(* The least-squares solution is not computed: a fit yields any of Fits.   *)
(***************************************************************************)
NoModel == [intercept |-> 0, coef |-> <<>>]
FreshPredictor ==
    [is_trained |-> FALSE, encoder |-> <<>>, model |-> NoModel, labels |-> {}]

\* every label of the model's records, in sorted order
SortedLabels == <<"food", "freelance", "misc", "salary">>

\* OneHotEncoder.fit: the distinct labels of the column, sorted
Vocabulary(records, label) ==
    SelectSeq(SortedLabels, LAMBDA l : \E i \in DOMAIN records : records[i][label] = l)

\* df[label].unique()
Labels(records, label) == {records[i][label] : i \in DOMAIN records}

\* the coefficient vectors a fit may yield: one weight per label column, then
\* the weights of the time features
Fits ==
    { [intercept |-> 3, label |-> 1, time |-> 0],
      [intercept |-> -3, label |-> 0, time |-> 1] }

\* LinearRegression.fit on n_labels one-hot columns and n_time time columns:
\* label column i gets weight fit.label * i, the last column weight fit.time
FitModel(fit, n_labels, n_time) ==
    [intercept |-> fit.intercept,
     coef |-> [i \in 1 .. (n_labels + n_time) |->
                  IF i <= n_labels THEN fit.label * i
                  ELSE IF i = n_labels + n_time THEN fit.time ELSE 0]]

\* _prepare_data: (None, None), an exception of pd.to_datetime, or X and y with
\* the encoder refitted; finite is FALSE when X or y holds a NaN
prepare_data(predictor, records, label) ==
    IF records = <<>> THEN [kind |-> "none", predictor |-> predictor]
    ELSE IF label \notin Columns(records) \/ "amount" \notin Columns(records)
            \/ "date" \notin Columns(records)
    THEN [kind |-> "none", predictor |-> predictor]
    ELSE IF ~DatesParse(records)
    THEN [kind |-> "raise", predictor |-> predictor]
    ELSE [kind |-> "ok",
          predictor |-> [predictor EXCEPT !.encoder = Vocabulary(records, label)],
          rows |-> Len(records),
          finite |-> \A i \in DOMAIN records :
                        "date" \in DOMAIN records[i] /\ "amount" \in DOMAIN records[i]]

\* train: the predictor it leaves and whether it returned or raised
train(predictor, records, label, n_time, fit) ==
    LET data == prepare_data(predictor, records, label)
    IN  IF data.kind = "raise"
        THEN [predictor |-> predictor, outcome |-> "raised"]
        ELSE IF data.kind = "none" \/ data.rows < 2
        THEN [predictor |-> [data.predictor EXCEPT !.is_trained = FALSE],
              outcome |-> "returned"]
        ELSE IF ~data.finite
        THEN [predictor |-> data.predictor, outcome |-> "raised"]
        ELSE [predictor |-> [data.predictor EXCEPT
                                !.model = FitModel(fit, Len(data.predictor.encoder), n_time),
                                !.is_trained = TRUE,
                                !.labels = Labels(records, label)],
              outcome |-> "returned"]

\* now.month + 1 if now.month < 12 else 1
NextMonth(now_month) == IF now_month < 12 THEN now_month + 1 ELSE 1

\* encoder.transform([[label]]) then model.predict on the row [one-hot, time
\* features]: an unknown label encodes to the zero vector
RawPrediction(predictor, l, time_features) ==
    LET n == Len(predictor.encoder)
        coef == predictor.model.coef
        hot == {i \in 1 .. n : predictor.encoder[i] = l}
        pos == IF hot = {} THEN 0 ELSE CHOOSE i \in hot : TRUE
        label_part == IF pos = 0 THEN 0 ELSE coef[pos]
        time_part(j) == coef[n + j] * time_features[j]
    IN  predictor.model.intercept + label_part
        + (IF Len(time_features) = 2 THEN time_part(1) + time_part(2) ELSE time_part(1))

\* model.predict raises when the row's width is not the fitted n_features_in_
WidthMatches(predictor, n_time) ==
    Len(predictor.encoder) + n_time = Len(predictor.model.coef)

\* max(0, pred)
Clamp(raw) == IF raw > 0 THEN raw ELSE 0

CanonicalCategories ==
    {"housing", "utilities", "food", "transportation",
     "entertainment", "health", "education", "other"}

DefaultSources ==
    {"salary", "freelance", "business", "investments", "rental", "gifts", "other"}

ExpenseThreshold == 3
IncomeThreshold == 2
DaysOfWeek == 7

ZeroExpenses == [total |-> R(0), categories |-> [c \in CanonicalCategories |-> R(0)]]
ZeroIncome == [total |-> R(0), sources |-> <<>>]

\* ExpensePredictor.predict, lines 128-133: the average over the seven weekdays,
\* sum(max(0, raw) / 7) formed as sum(max(0, raw)) / 7
CategoryPrediction(predictor, category, next_month) ==
    LET pred(day) == Clamp(RawPrediction(predictor, category, <<next_month, day>>))
    IN  Rat(pred(0) + pred(1) + pred(2) + pred(3) + pred(4) + pred(5) + pred(6),
            DaysOfWeek)

\* ExpensePredictor.predict, lines 101-144
ExpenseInference(predictor, expenses, next_month) ==
    LET categories == Labels(expenses, "category") \cup CanonicalCategories
        predictions == [c \in categories |-> CategoryPrediction(predictor, c, next_month)]
    IN  IF ~WidthMatches(predictor, 2)
        THEN [predictor |-> predictor, outcome |-> "raised"]
        ELSE [predictor |-> predictor, outcome |-> "returned",
              result |-> [total |-> SumValues(predictions, categories),
                          categories |-> predictions]]

\* mutant: the implicit training runs before the record count is looked at
ExpensePredict_TrainFirst(predictor, expenses, now_month, fit) ==
    LET trained == IF ~predictor.is_trained
                   THEN train(predictor, expenses, "category", 2, fit)
                   ELSE [predictor |-> predictor, outcome |-> "returned"]
    IN  IF trained.outcome = "raised" THEN trained
        ELSE IF expenses = <<>> \/ Len(expenses) < ExpenseThreshold
                \/ ~trained.predictor.is_trained
        THEN [predictor |-> trained.predictor, outcome |-> "returned",
              result |-> ZeroExpenses]
        ELSE ExpenseInference(trained.predictor, expenses, NextMonth(now_month))

\* ExpensePredictor.predict
ExpensePredict(predictor, expenses, now_month, fit) ==
    IF expenses = <<>> \/ Len(expenses) < ExpenseThreshold
    THEN [predictor |-> predictor, outcome |-> "returned", result |-> ZeroExpenses]
    ELSE LET trained == IF ~predictor.is_trained
                        THEN train(predictor, expenses, "category", 2, fit)
                        ELSE [predictor |-> predictor, outcome |-> "returned"]
         IN  IF trained.outcome = "raised" THEN trained
             ELSE IF ~trained.predictor.is_trained
             THEN [predictor |-> trained.predictor, outcome |-> "returned",
                   result |-> ZeroExpenses]
             ELSE ExpenseInference(trained.predictor, expenses, NextMonth(now_month))

\* IncomePredictor.predict, lines 84-119
IncomeInference(predictor, income_data, next_month) ==
    LET sources == IF "source" \in Columns(income_data) /\ Labels(income_data, "source") # {}
                   THEN Labels(income_data, "source")
                   ELSE DefaultSources
        predictions == [l \in sources |->
                          R(Clamp(RawPrediction(predictor, l, <<next_month>>)))]
        total_prediction == SumValues(predictions, sources)
        fallback == Len(income_data) >= 2 /\ total_prediction = R(0)
    IN  IF ~WidthMatches(predictor, 1)
        THEN [predictor |-> predictor, outcome |-> "raised"]
        ELSE IF fallback /\ \E i \in DOMAIN income_data : "amount" \notin DOMAIN income_data[i]
        THEN [predictor |-> predictor, outcome |-> "raised"]
        ELSE [predictor |-> predictor, outcome |-> "returned",
              result |-> [total |-> IF fallback
                                    THEN RDiv(ColumnSum(income_data, "amount"),
                                              R(Len(income_data)))
                                    ELSE total_prediction,
                          sources |-> predictions]]

\* mutant: only an empty list counts as too little data
IncomePredict_EmptyOnly(predictor, income_data, now_month, fit) ==
    IF income_data = <<>>
    THEN [predictor |-> predictor, outcome |-> "returned", result |-> ZeroIncome]
    ELSE LET trained == IF ~predictor.is_trained
                        THEN train(predictor, income_data, "source", 1, fit)
                        ELSE [predictor |-> predictor, outcome |-> "returned"]
         IN  IF trained.outcome = "raised" THEN trained
             ELSE IF ~trained.predictor.is_trained
             THEN [predictor |-> trained.predictor, outcome |-> "returned",
                   result |-> ZeroIncome]
             ELSE IncomeInference(trained.predictor, income_data, NextMonth(now_month))

\* IncomePredictor.predict
IncomePredict(predictor, income_data, now_month, fit) ==
    IF income_data = <<>> \/ Len(income_data) < IncomeThreshold
    THEN [predictor |-> predictor, outcome |-> "returned", result |-> ZeroIncome]
    ELSE LET trained == IF ~predictor.is_trained
                        THEN train(predictor, income_data, "source", 1, fit)
                        ELSE [predictor |-> predictor, outcome |-> "returned"]
         IN  IF trained.outcome = "raised" THEN trained
             ELSE IF ~trained.predictor.is_trained
             THEN [predictor |-> trained.predictor, outcome |-> "returned",
                   result |-> ZeroIncome]
             ELSE IncomeInference(trained.predictor, income_data, NextMonth(now_month))

(***************************************************************************)
(* The arguments the calls are made with.                                  *)
(***************************************************************************)
RECURSIVE SeqsUpTo(_, _)
SeqsUpTo(S, n) ==
    IF n = 0 THEN {<<>>}
    ELSE LET shorter == SeqsUpTo(S, n - 1)
         IN  shorter \cup {Append(s, x) : s \in {t \in shorter : Len(t) = n - 1}, x \in S}

OptExpenseRecords ==
    { [category |-> "housing", amount |-> R(1)],
      [category |-> "misc", amount |-> R(3)],
      [category |-> "food", amount |-> R(0)],
      [category |-> "food"],
      [amount |-> R(2)] }

OptIncomeRecords ==
    { [source |-> "salary", amount |-> R(60000), date |-> "2024-01-05"],
      [source |-> "freelance", amount |-> R(1), date |-> "2024-03-12"],
      [source |-> "salary", amount |-> R(-3), date |-> BadDate],
      [source |-> "salary", amount |-> Rat(3333, 100)],
      [source |-> "salary", date |-> "2024-01-05"] }

OptBudgets ==
    { None,
      Some(<<>>),
      Some([c \in {"housing"} |-> R(0)]),
      Some([c \in {"housing", "food", "misc"} |->
                IF c = "housing" THEN R(20000) ELSE R(5)]) }

SavingsRecords ==
    { [goal |-> "car", amount |-> R(2)],
      [goal |-> "car", amount |-> R(-1)],
      [goal |-> "trip"] }

SavIncomeRecords ==
    { [source |-> "salary", amount |-> R(4), date |-> "2024-01-05"],
      [source |-> "salary", amount |-> R(4), date |-> "2024-03-12"],
      [source |-> "gifts", amount |-> R(-4), date |-> BadDate],
      [source |-> "gifts", amount |-> R(2)],
      [source |-> "rental", date |-> "2025-02-03"] }

SavExpenseRecords ==
    { [category |-> "food", amount |-> R(1)],
      [category |-> "housing", amount |-> R(7)],
      [category |-> "other"] }

PredExpenseRecords ==
    { [category |-> "food", amount |-> R(1), date |-> "2024-01-05"],
      [category |-> "misc", amount |-> R(2), date |-> "2024-03-12"],
      [category |-> "food", amount |-> R(1), date |-> BadDate],
      [category |-> "food", amount |-> R(1)],
      [category |-> "food", date |-> "2024-01-19"] }

PredIncomeRecords ==
    { [source |-> "salary", amount |-> R(4), date |-> "2024-01-05"],
      [source |-> "freelance", amount |-> R(-2), date |-> "2024-03-12"],
      [source |-> "salary", amount |-> R(1), date |-> BadDate],
      [source |-> "salary", amount |-> R(1)],
      [source |-> "salary", date |-> "2024-01-19"] }

\* datetime.now().month when predict runs
NowMonths == {6, 12}

Optional(S) == {None} \cup {Some(v) : v \in S}

(***************************************************************************)
(* State machine.                                                          *)
(***************************************************************************)
\* no request is being handled
Idle == [op |-> "idle"]

Init ==
    /\ savings_rate = InitSavingsRate
    /\ ideal_allocations = InitIdealAllocations
    /\ minimum_allocations = InitMinimumAllocations
    /\ expense_predictor = FreshPredictor
    /\ income_predictor = FreshPredictor
    /\ call = Idle

\* mutant: optimized_budget aliases self.ideal_allocations and is written in place
Optimize_Aliased ==
    /\ call = Idle
    /\ \E expenses \in SeqsUpTo(OptExpenseRecords, MaxOptExpenses),
          income \in SeqsUpTo(OptIncomeRecords, MaxOptIncome),
          current_budget \in OptBudgets :
        /\ call' = [op |-> "optimize",
                    expenses |-> expenses,
                    income |-> income,
                    current_budget |-> current_budget,
                    result |-> optimize(expenses, income, current_budget)]
        /\ ideal_allocations' =
               [c \in Categories |-> RoundHalfEven(call'.result[c][1], call'.result[c][2])]
    /\ UNCHANGED <<savings_rate, minimum_allocations,
                   expense_predictor, income_predictor>>

\* budget_optimizer.optimize(expenses, income, current_budget)
Optimize ==
    /\ call = Idle
    /\ \E expenses \in SeqsUpTo(OptExpenseRecords, MaxOptExpenses),
          income \in SeqsUpTo(OptIncomeRecords, MaxOptIncome),
          current_budget \in OptBudgets :
        /\ call' = [op |-> "optimize",
                    expenses |-> expenses,
                    income |-> income,
                    current_budget |-> current_budget,
                    result |-> optimize(expenses, income, current_budget)]
        /\ UNCHANGED <<savings_rate, ideal_allocations, minimum_allocations,
                       expense_predictor, income_predictor>>

\* the handler returns and the next request may be handled
Return ==
    /\ call # Idle
    /\ call' = Idle
    /\ UNCHANGED <<savings_rate, ideal_allocations, minimum_allocations,
                   expense_predictor, income_predictor>>

\* savings_predictor.predict(savings_data, income_data, expense_data)
SavPredict ==
    /\ call = Idle
    /\ \E savings_data \in SeqsUpTo(SavingsRecords, MaxSavings),
          income_data \in Optional(SeqsUpTo(SavIncomeRecords, MaxSavIncome)),
          expense_data \in Optional(SeqsUpTo(SavExpenseRecords, MaxSavExpenses)) :
        LET out == SavingsPredict(savings_data, income_data, expense_data, savings_rate)
        IN  /\ call' = [op |-> "savings.predict",
                        savings_data |-> savings_data,
                        income_data |-> income_data,
                        expense_data |-> expense_data,
                        rate_before |-> savings_rate,
                        result |-> out.result]
            /\ savings_rate' = out.savings_rate
    /\ UNCHANGED <<ideal_allocations, minimum_allocations,
                   expense_predictor, income_predictor>>

\* savings_predictor.calculate_monthly_savings(income_data, expense_data)
SavCalculate ==
    /\ call = Idle
    /\ \E income_data \in SeqsUpTo(SavIncomeRecords, MaxSavIncome),
          expense_data \in SeqsUpTo(SavExpenseRecords, MaxSavExpenses) :
        LET out == calculate_monthly_savings(income_data, expense_data, savings_rate)
        IN  /\ call' = [op |-> "savings.calculate_monthly_savings",
                        income_data |-> income_data,
                        expense_data |-> expense_data,
                        rate_before |-> savings_rate,
                        result |-> out.value]
            /\ savings_rate' = out.savings_rate
    /\ UNCHANGED <<ideal_allocations, minimum_allocations,
                   expense_predictor, income_predictor>>

\* The two predictors share no state.  A behaviour of SpecPred makes its calls
\* on one of them, the other staying as constructed.

\* expense_predictor.train(expenses)
ExpTrain ==
    /\ call = Idle
    /\ income_predictor = FreshPredictor
    /\ \E expenses \in SeqsUpTo(PredExpenseRecords, MaxPredExpenses), fit \in Fits :
        LET out == train(expense_predictor, expenses, "category", 2, fit)
        IN  /\ call' = [op |-> "expense.train",
                        records |-> expenses,
                        before |-> expense_predictor,
                        outcome |-> out.outcome]
            /\ expense_predictor' = out.predictor
    /\ UNCHANGED <<savings_rate, ideal_allocations, minimum_allocations, income_predictor>>

\* expense_predictor.predict(expenses)
ExpPredict ==
    /\ call = Idle
    /\ income_predictor = FreshPredictor
    /\ \E expenses \in SeqsUpTo(PredExpenseRecords, MaxPredExpenses),
          now_month \in NowMonths, fit \in Fits :
        LET out == ExpensePredict(expense_predictor, expenses, now_month, fit)
        IN  /\ call' = IF out.outcome = "returned"
                       THEN [op |-> "expense.predict",
                             records |-> expenses,
                             now_month |-> now_month,
                             before |-> expense_predictor,
                             outcome |-> "returned",
                             result |-> out.result]
                       ELSE [op |-> "expense.predict",
                             records |-> expenses,
                             now_month |-> now_month,
                             before |-> expense_predictor,
                             outcome |-> "raised"]
            /\ expense_predictor' = out.predictor
    /\ UNCHANGED <<savings_rate, ideal_allocations, minimum_allocations, income_predictor>>

\* income_predictor.train(income_data)
IncTrain ==
    /\ call = Idle
    /\ expense_predictor = FreshPredictor
    /\ \E income_data \in SeqsUpTo(PredIncomeRecords, MaxPredIncome), fit \in Fits :
        LET out == train(income_predictor, income_data, "source", 1, fit)
        IN  /\ call' = [op |-> "income.train",
                        records |-> income_data,
                        before |-> income_predictor,
                        outcome |-> out.outcome]
            /\ income_predictor' = out.predictor
    /\ UNCHANGED <<savings_rate, ideal_allocations, minimum_allocations, expense_predictor>>

\* income_predictor.predict(income_data)
IncPredict ==
    /\ call = Idle
    /\ expense_predictor = FreshPredictor
    /\ \E income_data \in SeqsUpTo(PredIncomeRecords, MaxPredIncome),
          now_month \in NowMonths, fit \in Fits :
        LET out == IncomePredict(income_predictor, income_data, now_month, fit)
        IN  /\ call' = IF out.outcome = "returned"
                       THEN [op |-> "income.predict",
                             records |-> income_data,
                             now_month |-> now_month,
                             before |-> income_predictor,
                             outcome |-> "returned",
                             result |-> out.result]
                       ELSE [op |-> "income.predict",
                             records |-> income_data,
                             now_month |-> now_month,
                             before |-> income_predictor,
                             outcome |-> "raised"]
            /\ income_predictor' = out.predictor
    /\ UNCHANGED <<savings_rate, ideal_allocations, minimum_allocations, expense_predictor>>

NextOpt == Optimize \/ Return

NextPred == ExpTrain \/ ExpPredict \/ IncTrain \/ IncPredict \/ Return

NextSav == SavPredict \/ SavCalculate \/ Return

NextCore == Optimize \/ SavPredict \/ SavCalculate \/ Return

SpecOpt == Init /\ [][NextOpt]_vars

SpecSav == Init /\ [][NextSav]_vars

SpecPred == Init /\ [][NextPred]_vars

SpecCore == Init /\ [][NextCore]_vars

(***************************************************************************)
(* BudgetOptimizer: properties                                             *)
(***************************************************************************)
IsOptimize == call.op = "optimize"

\* the income the optimizer resolved in the call
CallMonthlyIncome == ResolveMonthlyIncome(call.expenses, call.income)

\* C1: every category's allocation returned by optimize is at least
\* minimum_percentage/100 x monthly_income (up to the half cent the final rounding
\* to 2 decimals may take off), for any expenses, income and current_budget.
C1_FloorOnEveryOutput ==
    IsOptimize =>
        \A c \in Categories :
            RLe(RSub(PercentOf(R(InitMinimumAllocations[c]), CallMonthlyIncome),
                     Rat(1, 200)),
                call.result[c])

\* C5 as stated: with empty expenses and no current_budget every category is
\* returned as exactly ideal_percentage/100 x monthly_income and the
\* allocations sum to monthly_income.
C5_ExactIdeal ==
    (IsOptimize /\ call.expenses = <<>> /\ call.current_budget = None) =>
        /\ \A c \in Categories :
              call.result[c] = PercentOf(R(InitIdealAllocations[c]), CallMonthlyIncome)
        /\ SumValues(call.result, Categories) = CallMonthlyIncome

\* C5 amended: with empty expenses and no current_budget every category is
\* returned as ideal_percentage/100 x monthly_income rounded to 2 decimals (within
\* 0.005 of it, and never below the floor), so the allocations sum to within 0.04
\* of monthly_income; monthly_income is 50000 and the sum exactly 50000 when income
\* is empty too, and housing is 18000.00 for a single dated income of 60000.
C5_IdealRounded ==
    (IsOptimize /\ call.expenses = <<>> /\ call.current_budget = None) =>
        LET total == SumValues(call.result, Categories)
            ideal(c) == PercentOf(R(InitIdealAllocations[c]), CallMonthlyIncome)
        IN  /\ DOMAIN call.result = Categories
            /\ \A c \in Categories :
                  /\ 100 % call.result[c][2] = 0
                  /\ RLe(RSub(call.result[c], ideal(c)), Rat(1, 200))
                  /\ RLe(RSub(ideal(c), call.result[c]), Rat(1, 200))
                  /\ RLe(PercentOf(R(InitMinimumAllocations[c]), CallMonthlyIncome), ideal(c))
            /\ RLe(RSub(total, CallMonthlyIncome), Rat(4, 100))
            /\ RLe(RSub(CallMonthlyIncome, total), Rat(4, 100))
            /\ call.income = <<>> =>
                  CallMonthlyIncome = R(DefaultIncome) /\ total = R(DefaultIncome)
            /\ (Len(call.income) = 1 /\ DOMAIN call.income[1] = {"source", "amount", "date"}
                  /\ call.income[1].amount = R(60000) /\ Parseable(call.income[1].date)) =>
                  CallMonthlyIncome = R(60000) /\ call.result["housing"] = R(18000)

\* C5 witness: the single dated income of 60000
C5_Witness ==
    /\ IsOptimize /\ call.expenses = <<>> /\ call.current_budget = None
    /\ Len(call.income) = 1
    /\ DOMAIN call.income[1] = {"source", "amount", "date"}
    /\ call.income[1].amount = R(60000)
    /\ call.result["housing"] = R(18000)

(***************************************************************************)
(* SavingsPredictor: properties                                            *)
(***************************************************************************)
IsSavPredict == call.op = "savings.predict"
IsSavCalculate == call.op = "savings.calculate_monthly_savings"

\* C6: six_month_forecast has exactly 6 entries, the first equal to next_month
\* and every later one equal to the previous one x 1.02, for any next_month.
C6_ForecastGrowth ==
    IsSavPredict =>
        LET f == call.result.six_month_forecast
        IN  /\ Len(f) = 6
            /\ f[1].base = call.result.next_month
            /\ f[1].factor = R(1)
            /\ \A k \in 1 .. 5 :
                  /\ f[k + 1].base = f[k].base
                  /\ RDiv(f[k + 1].factor, f[k].factor) = Rat(51, 50)

\* C6 witness: a forecast that starts from a negative next_month
C6_Witness ==
    /\ IsSavPredict
    /\ call.result.next_month[1] < 0
    /\ Len(call.result.six_month_forecast) = 6
    /\ call.result.six_month_forecast[6].factor = <<345025251, 312500000>>

\* the combination rule of predict, given whether the blend applies
BlendRule(applies) ==
    LET avg == AvgMonthlySavings(call.savings_data)
        calc == calculate_monthly_savings(call.income_data[1], call.expense_data[1],
                                          call.rate_before).value
    IN  IF applies
        THEN IF avg[1] > 0 /\ calc[1] > 0
             THEN call.result.next_month = RDiv(RAdd(avg, calc), R(2))
             ELSE call.result.next_month = (IF RLt(avg, calc) THEN calc ELSE avg)
        ELSE call.result.next_month = avg

\* C7 as stated: the mean-or-max rule applies whenever both income and expenses
\* are supplied (not None), empty or not.
C7_BlendWhenSupplied ==
    IsSavPredict => BlendRule(call.income_data # None /\ call.expense_data # None)

\* C7 amended: the mean-or-max rule applies whenever both income and expenses
\* are supplied and non-empty; when either is None or empty next_month equals
\* avg_monthly_savings.
C7_BlendWhenNonEmpty ==
    IsSavPredict =>
        BlendRule(/\ call.income_data # None /\ call.income_data[1] # <<>>
                  /\ call.expense_data # None /\ call.expense_data[1] # <<>>)

\* C7 witness: both signals strictly positive and averaged
C7_Witness ==
    /\ IsSavPredict
    /\ Truthy(call.income_data) /\ Truthy(call.expense_data)
    /\ AvgMonthlySavings(call.savings_data) = R(2)
    /\ calculate_monthly_savings(call.income_data[1], call.expense_data[1],
                                 call.rate_before).value = R(3)
    /\ call.result.next_month = Rat(5, 2)

\* C10: with parseable income dates calculate_monthly_savings divides
\* total_savings by the inclusive month span between the earliest and latest
\* income date (January to March spans 3 months); with no date field or a date
\* that does not parse it divides by max(1, number of income records).
C10_InclusiveMonthSpan ==
    (/\ IsSavCalculate
     /\ call.income_data # <<>> /\ call.expense_data # <<>>
     /\ "amount" \in Columns(call.income_data)
     /\ "amount" \in Columns(call.expense_data)) =>
        LET total_savings == RSub(ColumnSum(call.income_data, "amount"),
                                  ColumnSum(call.expense_data, "amount"))
            first == StartDate(call.income_data)
            last == EndDate(call.income_data)
            span == (last.year * 12 + last.month) - (first.year * 12 + first.month) + 1
            count == IF Len(call.income_data) > 1 THEN Len(call.income_data) ELSE 1
        IN  IF "date" \in Columns(call.income_data) /\ DatesParse(call.income_data)
            THEN call.result = RDiv(total_savings, R(IF span > 1 THEN span ELSE 1))
            ELSE call.result = RDiv(total_savings, R(count))

(***************************************************************************)
(* Frame properties                                                        *)
(***************************************************************************)
\* what the call would have returned on a freshly constructed instance
FreshSavingsPredict ==
    SavingsPredict(call.savings_data, call.income_data, call.expense_data,
                   InitSavingsRate).result

TablesUntouched ==
    /\ ideal_allocations = InitIdealAllocations
    /\ minimum_allocations = InitMinimumAllocations

\* C8 as stated: after any sequence of earlier calls, a call of
\* SavingsPredictor.predict, calculate_monthly_savings or BudgetOptimizer.optimize
\* returns what it returns on a freshly constructed instance.
C8_SameAsFresh ==
    /\ TablesUntouched
    /\ IsSavPredict => call.result = FreshSavingsPredict
    /\ IsSavCalculate =>
          call.result = calculate_monthly_savings(call.income_data, call.expense_data,
                                                  InitSavingsRate).value

\* C8 amended: apart from the predictors' trained state and
\* SavingsPredictor.savings_rate, the calls are side-effect free: optimize leaves
\* its tables as constructed, and next_month and six_month_forecast of predict
\* and the value of calculate_monthly_savings are what a fresh instance returns;
\* the savings_rate predict reports is the stored rate, which an earlier call may
\* have set, x 100.
C8_FreshExceptSavingsRate ==
    /\ TablesUntouched
    /\ IsSavPredict =>
          /\ call.result.next_month = FreshSavingsPredict.next_month
          /\ call.result.six_month_forecast = FreshSavingsPredict.six_month_forecast
          /\ call.result.savings_rate = RMul(savings_rate, R(100))
    /\ IsSavCalculate =>
          call.result = calculate_monthly_savings(call.income_data, call.expense_data,
                                                  InitSavingsRate).value

\* C8 witness: predict on an instance an earlier call left with another rate
C8_Witness ==
    /\ IsSavPredict
    /\ call.rate_before # InitSavingsRate
    /\ call.income_data = None
    /\ call.result.savings_rate # R(10)

(***************************************************************************)
(* ExpensePredictor and IncomePredictor: properties                        *)
(***************************************************************************)
IsExpPredict == call.op = "expense.predict"
IsIncPredict == call.op = "income.predict"

\* C2: predict of either predictor never raises on malformed records: with
\* enough records, one of which has an unparseable date or lacks a required
\* field, it returns a structurally valid result in any instance state.
C2_PredictNeverRaises ==
    (IsExpPredict \/ IsIncPredict) =>
        /\ call.outcome = "returned"
        /\ IsExpPredict => CanonicalCategories \subseteq DOMAIN call.result.categories

\* C3: for fewer than 3 expense records predict returns total 0 and exactly the
\* 8 canonical categories at 0, in any trained state, and leaves that state as
\* it was.
C3_TooFewExpenses ==
    (IsExpPredict /\ Len(call.records) < 3) =>
        /\ call.outcome = "returned"
        /\ call.result.total = R(0)
        /\ DOMAIN call.result.categories = CanonicalCategories
        /\ \A c \in CanonicalCategories : call.result.categories[c] = R(0)
        /\ expense_predictor = call.before

\* C3 witness: two records handed to a trained instance
C3_Witness ==
    /\ IsExpPredict
    /\ Len(call.records) = 2
    /\ call.before.is_trained
    /\ call.outcome = "returned"

\* C4: for fewer than 2 income records predict returns total 0 and an empty
\* source mapping, in any trained state; the mean of the history is not used.
C4_TooFewIncome ==
    (IsIncPredict /\ Len(call.records) < 2) =>
        /\ call.outcome = "returned"
        /\ call.result.total = R(0)
        /\ DOMAIN call.result.sources = {}

\* C4 witness: one record with a positive amount handed to a trained instance
C4_Witness ==
    /\ IsIncPredict
    /\ Len(call.records) = 1
    /\ "amount" \in DOMAIN call.records[1]
    /\ call.records[1].amount[1] > 0
    /\ call.before.is_trained
    /\ call.outcome = "returned"

\* C9: every value predict returns is >= 0: each category and the total of the
\* expense prediction, each source and the total of the income prediction; the
\* expense total is the sum of the categories.
C9_NonNegative ==
    /\ (IsExpPredict /\ call.outcome = "returned") =>
          /\ \A c \in DOMAIN call.result.categories : call.result.categories[c][1] >= 0
          /\ call.result.total[1] >= 0
          /\ call.result.total =
                SumValues(call.result.categories, DOMAIN call.result.categories)
    /\ (IsIncPredict /\ call.outcome = "returned") =>
          /\ \A l \in DOMAIN call.result.sources : call.result.sources[l][1] >= 0
          /\ call.result.total[1] >= 0

IsExpTrain == call.op = "expense.train"
IsIncTrain == call.op = "income.train"

\* the records a training can use: at least 2 rows, each with its label, its
\* amount and a date that parses
UsableRows(records, label) ==
    /\ Len(records) >= 2
    /\ \A i \in DOMAIN records :
          /\ {label, "amount", "date"} \subseteq DOMAIN records[i]
          /\ Parseable(records[i].date)

\* C11: the lifecycle of a predictor.  A train call leaves the instance Trained
\* iff the records have the required fields and at least 2 rows, Untrained
\* otherwise; predict trains only an Untrained instance whose input meets the
\* record threshold; predict on a Trained instance leaves flag, coefficients and
\* vocabulary as they were.
C11_Lifecycle ==
    /\ IsExpTrain => (expense_predictor.is_trained <=> UsableRows(call.records, "category"))
    /\ IsIncTrain => (income_predictor.is_trained <=> UsableRows(call.records, "source"))
    /\ (IsExpPredict /\ (call.before.is_trained \/ Len(call.records) < ExpenseThreshold)) =>
          expense_predictor = call.before
    /\ (IsIncPredict /\ (call.before.is_trained \/ Len(call.records) < IncomeThreshold)) =>
          income_predictor = call.before

\* the labels of an encoder's vocabulary
VocabularySet(predictor) == {predictor.encoder[i] : i \in DOMAIN predictor.encoder}

\* predict got as far as encoding labels: the input met the threshold and the
\* instance was Trained, before the call or by its implicit training
ExpInference ==
    IsExpPredict /\ Len(call.records) >= ExpenseThreshold /\ expense_predictor.is_trained
IncInference ==
    IsIncPredict /\ Len(call.records) >= IncomeThreshold /\ income_predictor.is_trained

\* C12: whenever predict encodes a label for inference, the encoder's vocabulary
\* is the one of the most recent successful training, the rows the coefficients
\* were fitted on (train saves their labels on success), also after failed train
\* calls in between; encoding never causes an error.
C12_EncoderVocabulary ==
    /\ ExpInference =>
          /\ VocabularySet(expense_predictor) = expense_predictor.labels
          /\ WidthMatches(expense_predictor, 2)
    /\ IncInference =>
          /\ VocabularySet(income_predictor) = income_predictor.labels
          /\ WidthMatches(income_predictor, 1)

(***************************************************************************)
(* BudgetOptimizer: the steps of optimize                                  *)
(***************************************************************************)
\* C13: the monthly_income optimize works with is strictly positive: the
\* computed income if that is > 0, otherwise the sum of all expense amounts if
\* that is > 0, otherwise 50000.
C13_PositiveIncome ==
    IsOptimize =>
        LET computed == calculate_total_income(call.income)
            expense_sum == IF "amount" \in Columns(call.expenses)
                           THEN ColumnSum(call.expenses, "amount")
                           ELSE R(0)
        IN  /\ RPos(CallMonthlyIncome)
            /\ CallMonthlyIncome =
                  IF RPos(computed) THEN computed
                  ELSE IF RPos(expense_sum) THEN expense_sum
                  ELSE R(DefaultIncome)

\* C13 witness: a negative computed income replaced by the expense sum
C13_Witness ==
    /\ IsOptimize
    /\ calculate_total_income(call.income)[1] < 0
    /\ call.current_budget = None
    /\ CallMonthlyIncome = R(1)
    /\ call.result["housing"] = Rat(3, 10)

\* the amounts the claims about the steps of optimize speak of
IdealAmount(c) == PercentOf(R(InitIdealAllocations[c]), CallMonthlyIncome)
FloorAmount(c) == PercentOf(R(InitMinimumAllocations[c]), CallMonthlyIncome)
CallPatterns == analyze_spending_patterns(call.expenses)
\* spending_percentage/100 x monthly_income of a category the patterns hold
SpendingAmount(c) == PercentOf(CallPatterns[c], CallMonthlyIncome)
\* max(floor, min(ideal, spending))
ShrunkAmount(c) ==
    RMax(FloorAmount(c),
         IF RLt(SpendingAmount(c), IdealAmount(c)) THEN SpendingAmount(c) ELSE IdealAmount(c))
AppearsInExpenses(c) ==
    \E i \in DOMAIN call.expenses :
        "category" \in DOMAIN call.expenses[i] /\ call.expenses[i].category = c

\* C14 as stated: with no current_budget every fixed category is returned as
\* max(floor, min(ideal, spending)) when it appears in the expenses (it has a
\* spending percentage) and as the ideal amount otherwise, so never above the
\* ideal amount; the keys returned are the fixed categories whatever categories
\* the expenses name.
C14_ExactShrink ==
    (IsOptimize /\ call.current_budget = None) =>
        /\ DOMAIN call.result = Categories
        /\ \A c \in Categories :
              /\ call.result[c] = IF c \in DOMAIN CallPatterns THEN ShrunkAmount(c)
                                                                ELSE IdealAmount(c)
              /\ RLe(call.result[c], IdealAmount(c))

\* C14 amended: with no current_budget every fixed category is returned as
\* max(floor, min(ideal, spending)) rounded to 2 decimals when it appears in the
\* expenses (it has a spending percentage) and as the ideal amount rounded to 2
\* decimals otherwise, so never more than 0.005 above the ideal amount; the keys
\* returned are the fixed categories whatever categories the expenses name.
C14_ShrinkRounded ==
    (IsOptimize /\ call.current_budget = None) =>
        /\ DOMAIN call.result = Categories
        /\ \A c \in Categories :
              /\ call.result[c] = Round2(IF c \in DOMAIN CallPatterns THEN ShrunkAmount(c)
                                                                        ELSE IdealAmount(c))
              /\ RLe(RSub(call.result[c], IdealAmount(c)), Rat(1, 200))

\* C14 witness: housing spent 25% of an income of 4 and is shrunk from 1.2 to 1,
\* next to an expense category outside the fixed table
C14_Witness ==
    /\ IsOptimize /\ call.current_budget = None
    /\ AppearsInExpenses("misc")
    /\ CallMonthlyIncome = R(4)
    /\ IdealAmount("housing") = Rat(6, 5)
    /\ call.result["housing"] = R(1)

\* the newly computed amount of a category, after the floors
PostFloorAmount(c) ==
    IF c \in DOMAIN CallPatterns THEN ShrunkAmount(c) ELSE IdealAmount(c)

\* the amount the gradual adjustment leaves for a category
AdjustedAmount(c) ==
    IF c \in DOMAIN call.current_budget[1]
    THEN RDiv(RAdd(call.current_budget[1][c], PostFloorAmount(c)), R(2))
    ELSE PostFloorAmount(c)

\* C15 as stated: when current_budget is supplied, every fixed category present
\* in it is returned as the arithmetic mean of its prior amount and the newly
\* computed post-floor amount, the other fixed categories keep the newly computed
\* amount, and the keys returned are exactly the 8 fixed categories for every
\* input.
C15_ExactMean ==
    IsOptimize =>
        /\ DOMAIN call.result = Categories
        /\ call.current_budget # None =>
              \A c \in Categories : call.result[c] = AdjustedAmount(c)

\* C15 amended: when current_budget is supplied, every fixed category present in
\* it is returned as the arithmetic mean of its prior amount and the newly
\* computed post-floor amount, rounded to 2 decimals, the other fixed categories
\* keep the newly computed amount rounded to 2 decimals, and the keys returned are
\* exactly the 8 fixed categories for every input.
C15_MeanRounded ==
    IsOptimize =>
        /\ DOMAIN call.result = Categories
        /\ call.current_budget # None =>
              \A c \in Categories : call.result[c] = Round2(AdjustedAmount(c))

\* C15 witness: a budget with housing 20000 and a category outside the fixed
\* table, an income of 60000: housing is (20000 + 18000) / 2
C15_Witness ==
    /\ IsOptimize
    /\ call.current_budget # None
    /\ "misc" \in DOMAIN call.current_budget[1]
    /\ CallMonthlyIncome = R(60000)
    /\ PostFloorAmount("housing") = R(18000)
    /\ call.result["housing"] = R(19000)
    /\ "misc" \notin DOMAIN call.result

(***************************************************************************)
(* SavingsPredictor: the stored savings_rate                               *)
(***************************************************************************)
\* calculate_monthly_savings gets as far as the rate step
ReachesRateStep(income_data, expense_data) ==
    /\ income_data # <<>> /\ expense_data # <<>>
    /\ "amount" \in Columns(income_data)
    /\ "amount" \in Columns(expense_data)

\* the rate a calculate_monthly_savings call leaves, given the one it found
RateAfter(income_data, expense_data, previous) ==
    LET total_income == ColumnSum(income_data, "amount")
        total_savings == RSub(total_income, ColumnSum(expense_data, "amount"))
    IN  IF ReachesRateStep(income_data, expense_data) /\ RPos(total_income)
        THEN RDiv(total_savings, total_income)
        ELSE previous

\* the rate after the call just made, and what the call reports
RateOfLastCall ==
    /\ IsSavCalculate =>
          /\ savings_rate = RateAfter(call.income_data, call.expense_data, call.rate_before)
          /\ (call.income_data = <<>> \/ call.expense_data = <<>>) => call.result = R(0)
    /\ IsSavPredict =>
          /\ savings_rate =
                IF Truthy(call.income_data) /\ Truthy(call.expense_data)
                THEN RateAfter(call.income_data[1], call.expense_data[1], call.rate_before)
                ELSE call.rate_before
          /\ call.result.savings_rate = RMul(savings_rate, R(100))

\* a call starts from the rate the instance holds, and nothing but a call
\* changes it
RateCarriedOver ==
    /\ (call = Idle /\ call' # Idle) => call'.rate_before = savings_rate
    /\ call' = Idle => savings_rate' = savings_rate

\* C16: savings_rate starts at 0.1 and after any sequence of calls is
\* total_savings/total_income of the most recent calculate_monthly_savings call
\* (made directly or by predict) that reached the rate step with total_income > 0;
\* a call with empty income or expenses returns 0, and it or a call with
\* total_income <= 0 leaves savings_rate as it was; predict reports
\* savings_rate x 100.
C16_SavingsRate ==
    /\ savings_rate = InitSavingsRate
    /\ []RateOfLastCall
    /\ [][RateCarriedOver]_vars

\* C16 witness: an instance whose rate an earlier call has set is handed an
\* income whose total is not positive: the rate stays and predict reports it
C16_Witness ==
    /\ IsSavPredict
    /\ call.rate_before # InitSavingsRate
    /\ Truthy(call.income_data) /\ Truthy(call.expense_data)
    /\ ReachesRateStep(call.income_data[1], call.expense_data[1])
    /\ ~RPos(ColumnSum(call.income_data[1], "amount"))
    /\ savings_rate = call.rate_before
    /\ call.result.savings_rate = RMul(call.rate_before, R(100))

====
